---------------------------- MODULE Spec2Model ----------------------------
(***************************************************************************)
(* A model of src/main.py: the Devstral command-line chat client.          *)
(*                                                                         *)
(* Text.  A Python str is modelled as a sequence of atoms.  Streamed model *)
(* output and user-supplied strings are sequences of one-character atoms,  *)
(* so that the marker regular expression, string prefix tests and newline  *)
(* translation work on characters.  A string literal of the program (an    *)
(* error message, a tool name, a directory name) is one atom holding the   *)
(* whole literal; two further atoms, IMPORT_OS and NUL, stand for the      *)
(* source text "__import__('os')" and for a NUL character.                 *)
(***************************************************************************)
EXTENDS Integers, Sequences, FiniteSets, TLC

(***************************************************************************)
(* Bounds of the model: the calls of the file-operation driver, the turns  *)
(* of a run against the basic streams, the turns of a run against every    *)
(* stream, and the deltas fed to the marker scan.                          *)
(***************************************************************************)
MaxFileOps == 3

MaxTurns == 4

MaxFullTurns == 1

MaxScanDeltas == 6

(***************************************************************************)
(* Optional values (Python's None).                                        *)
(***************************************************************************)
None == [some |-> FALSE, val |-> <<>>]

Some(t) == [some |-> TRUE, val |-> t]

(***************************************************************************)
(* Sequence helpers.                                                       *)
(***************************************************************************)
StartsWith(s, p) ==
    /\ Len(p) <= Len(s)
    /\ SubSeq(s, 1, Len(p)) = p

Drop(s, n) == SubSeq(s, n + 1, Len(s))

Contains(s, x) == \E i \in DOMAIN s : s[i] = x

(***************************************************************************)
(* The filesystem.  A path is a sequence of names, a name a sequence of    *)
(* atoms; str(path) joins the names with "/".  The filesystem holds no     *)
(* symbolic links and grants every permission.                             *)
(***************************************************************************)
NUL == "<NUL>"

DotDot == <<".", ".">>

HomeDir == << <<"home">> >>

SandboxName == <<"devstral_sandbox">>

SiblingName == <<"devstral_sandbox", "2">>

SAFE_BASE_DIR == HomeDir \o <<SandboxName>>

RECURSIVE PathStr(_)
PathStr(p) ==
    IF p = <<>> THEN <<>> ELSE <<"/">> \o Head(p) \o PathStr(Tail(p))

\* str(Path): the root directory prints as "/".
StrOfPath(p) == IF p = <<>> THEN <<"/">> ELSE PathStr(p)

\* Splitting a path string at its "/" characters.
RECURSIVE SplitSlash(_, _)
SplitSlash(cur, t) ==
    IF t = <<>> THEN <<cur>>
    ELSE IF Head(t) = "/" THEN <<cur>> \o SplitSlash(<<>>, Tail(t))
    ELSE SplitSlash(Append(cur, Head(t)), Tail(t))

RECURSIVE DropEmptyNames(_)
DropEmptyNames(names) ==
    IF names = <<>> THEN <<>>
    ELSE IF Head(names) \in {<<>>, <<".">>} THEN DropEmptyNames(Tail(names))
    ELSE <<Head(names)>> \o DropEmptyNames(Tail(names))

\* pathlib's parse of a path string: empty and "." names are dropped.
PurePath(t) ==
    [abs |-> t # <<>> /\ Head(t) = "/",
     parts |-> DropEmptyNames(SplitSlash(<<>>, t))]

\* pathlib's "/" operator: an absolute right operand replaces the left one.
JoinPath(base, t) ==
    IF PurePath(t).abs THEN PurePath(t).parts ELSE base \o PurePath(t).parts

\* Path.resolve() without symbolic links: ".." removes the name before it
\* and stays at the root.
RECURSIVE Normalize(_, _)
Normalize(done, todo) ==
    IF todo = <<>> THEN done
    ELSE IF Head(todo) = DotDot
         THEN Normalize(IF done = <<>> THEN <<>>
                        ELSE SubSeq(done, 1, Len(done) - 1), Tail(todo))
         ELSE Normalize(Append(done, Head(todo)), Tail(todo))

\* resolve() raises ValueError (embedded null byte) on a NUL character.
ResolveRaises(p) == \E i \in DOMAIN p : Contains(p[i], NUL)

Resolve(p) == Normalize(<<>>, p)

\* Line 21: a prefix test on the two path strings.
IsAllowedPath(target) ==
    StartsWith(StrOfPath(target), StrOfPath(SAFE_BASE_DIR))

\* The descendant relation the path check is meant to decide.
IsDescendant(target) == StartsWith(target, SAFE_BASE_DIR)

Parent(p) == SubSeq(p, 1, Len(p) - 1)

Ancestors(p) == { SubSeq(p, 1, n) : n \in 0..(Len(p) - 1) }

\* open(..., 'r') with the default newline=None: universal newlines.
RECURSIVE ReadTranslate(_)
ReadTranslate(t) ==
    IF t = <<>> THEN <<>>
    ELSE IF Head(t) = "\r"
         THEN IF Len(t) >= 2 /\ t[2] = "\n"
              THEN <<"\n">> \o ReadTranslate(Drop(t, 2))
              ELSE <<"\n">> \o ReadTranslate(Tail(t))
         ELSE <<Head(t)>> \o ReadTranslate(Tail(t))

\* open(..., 'w') with the default newline=None on POSIX: os.linesep is
\* "\n", so the text is stored as written.
WriteTranslate(t) == t

\* Names of the entries of a directory, in the order iterdir() yields them
\* (the order is the filesystem's; the model fixes one).
RECURSIVE SetToSeq(_)
SetToSeq(S) ==
    IF S = {} THEN <<>>
    ELSE LET x == CHOOSE y \in S : TRUE IN <<x>> \o SetToSeq(S \ {x})

Children(dirs, files, d) ==
    { p[Len(p)] : p \in { q \in dirs \cup DOMAIN files :
                            Len(q) = Len(d) + 1 /\ StartsWith(q, d) } }

RECURSIVE JoinLines(_)
JoinLines(names) ==
    IF names = <<>> THEN <<>>
    ELSE IF Len(names) = 1 THEN Head(names)
    ELSE Head(names) \o <<"\n">> \o JoinLines(Tail(names))

\* The result of one file_operation call: the returned text, the
\* filesystem afterwards, the kind of I/O done on the target ("none" when
\* the call returned before touching it) and the resolved target.
FileOut(text, dirs, files, io, target) ==
    [result |-> text, dirs |-> dirs, files |-> files, io |-> io,
     target |-> target]

FileOperationBody(dirs, files, operation, path, content, target) ==
    IF operation = <<"read">>
    THEN IF target \notin DOMAIN files
         THEN FileOut(<<"Error: ">> \o path
                        \o <<" is not a file or does not exist.">>,
                      dirs, files, "none", target)
         ELSE FileOut(ReadTranslate(files[target]), dirs, files, "read",
                      target)
    ELSE IF operation = <<"write">>
    THEN IF ~content.some
         THEN FileOut(<<"Error: Content is required for write operation.">>,
                      dirs, files, "none", target)
         ELSE IF \E a \in Ancestors(target) : a \in DOMAIN files
         THEN \* parent.mkdir(parents=True, exist_ok=True) raises: the
              \* parent or a directory above it is a regular file
              FileOut(<<"Error during file operation: ">>
                        \o (IF Parent(target) \in DOMAIN files
                            THEN <<"[Errno 17] File exists">>
                            ELSE <<"[Errno 20] Not a directory">>),
                      dirs, files, "none", target)
         ELSE IF target \in dirs
         THEN \* open(target, 'w') raises IsADirectoryError
              FileOut(<<"Error during file operation: ",
                        "[Errno 21] Is a directory">>,
                      dirs \cup Ancestors(target), files, "none", target)
         ELSE FileOut(<<"Successfully wrote to ">> \o path,
                      dirs \cup Ancestors(target),
                      [q \in DOMAIN files \cup {target} |->
                          IF q = target THEN WriteTranslate(content.val)
                          ELSE files[q]],
                      "write", target)
    ELSE IF operation = <<"list">>
    THEN IF target \notin dirs
         THEN FileOut(<<"Error: ">> \o path
                        \o <<" is not a directory or does not exist.">>,
                      dirs, files, "none", target)
         ELSE LET names == SetToSeq(Children(dirs, files, target))
              IN  FileOut(IF names = <<>> THEN <<"Directory is empty.">>
                          ELSE JoinLines(names),
                          dirs, files, "list", target)
    ELSE FileOut(<<"Error: Unsupported operation '">> \o operation
                   \o <<"'. Use 'read', 'write', or 'list'.">>,
                 dirs, files, "none", target)

file_operation(dirs, files, operation, path, content) ==
    LET dirs1 == dirs \cup {SAFE_BASE_DIR}
        joined == JoinPath(SAFE_BASE_DIR, path)
    IN  IF ResolveRaises(joined)
        THEN FileOut(<<"Error: Invalid path - ", "embedded null byte">>,
                     dirs1, files, "none", joined)
        ELSE IF ~IsAllowedPath(Resolve(joined))
        THEN FileOut(<<"Error: Path is outside the allowed directory.">>,
                     dirs1, files, "none", Resolve(joined))
        ELSE FileOperationBody(dirs1, files, operation, path, content,
                               Resolve(joined))

(***************************************************************************)
(* json.loads on the subset of JSON the tool arguments use: an object      *)
(* whose keys and values are string literals without escapes.  Any other   *)
(* text raises JSONDecodeError.  A key is one atom (the name of the        *)
(* parameter); a value is any text without a quote.                        *)
(***************************************************************************)
QUOTE == "\""

JsonError == [ok |-> FALSE, obj |-> <<>>, rest |-> <<>>]

\* A string literal at the head of t: its text and what follows it.
RECURSIVE JsonStringBody(_, _)
JsonStringBody(acc, t) ==
    IF t = <<>> THEN JsonError
    ELSE IF Head(t) = QUOTE THEN [ok |-> TRUE, obj |-> acc, rest |-> Tail(t)]
    ELSE JsonStringBody(Append(acc, Head(t)), Tail(t))

JsonString(t) ==
    IF t = <<>> \/ Head(t) # QUOTE THEN JsonError
    ELSE JsonStringBody(<<>>, Tail(t))

\* The pairs of an object, after its "{" or after a ",".  The object is a
\* sequence of <<key, value>> pairs; a later pair of the same key wins.
RECURSIVE JsonPairs(_, _)
JsonPairs(acc, t) ==
    LET k == JsonString(t)
    IN  IF ~k.ok \/ k.rest = <<>> \/ Head(k.rest) # ":" THEN JsonError
        ELSE LET v == JsonString(Tail(k.rest))
             IN  IF ~v.ok \/ v.rest = <<>> THEN JsonError
                 ELSE IF Head(v.rest) = "}"
                 THEN IF Tail(v.rest) = <<>>
                      THEN [ok |-> TRUE,
                            obj |-> Append(acc, <<k.obj, v.obj>>),
                            rest |-> <<>>]
                      ELSE JsonError
                 ELSE IF Head(v.rest) = ","
                 THEN JsonPairs(Append(acc, <<k.obj, v.obj>>), Tail(v.rest))
                 ELSE JsonError

json_loads(t) ==
    IF t = <<>> \/ Head(t) # "{" THEN JsonError
    ELSE IF Tail(t) = <<"}">> THEN [ok |-> TRUE, obj |-> <<>>, rest |-> <<>>]
    ELSE JsonPairs(<<>>, Tail(t))

HasKey(obj, k) == \E i \in DOMAIN obj : obj[i][1] = k

\* obj[k] for a key the object has.
GetKey(obj, k) ==
    LET i == CHOOSE j \in DOMAIN obj :
                 /\ obj[j][1] = k
                 /\ \A m \in DOMAIN obj : obj[m][1] = k => m <= j
    IN  obj[i][2]

\* obj.get(k): None for a missing key.
GetOpt(obj, k) == IF HasKey(obj, k) THEN Some(GetKey(obj, k)) ELSE None

\* str(KeyError(k))
KeyErrorStr(k) == <<"'">> \o k \o <<"'">>

JsonErrorStr == <<"Expecting value: line 1 column 1 (char 0)">>

(***************************************************************************)
(* Python's eval on the expressions the model draws: decimal literals,     *)
(* "+", "*" and blanks, or the call __import__('os').                      *)
(***************************************************************************)
IMPORT_OS == "__import__('os')"

DigitChars == <<"0", "1", "2", "3", "4", "5", "6", "7", "8", "9">>

IsDigit(c) == \E i \in 1..10 : DigitChars[i] = c

DigitValue(c) == (CHOOSE i \in 1..10 : DigitChars[i] = c) - 1

RECURSIVE StripBlanks(_)
StripBlanks(t) ==
    IF t = <<>> THEN <<>>
    ELSE IF Head(t) = " " THEN StripBlanks(Tail(t))
    ELSE <<Head(t)>> \o StripBlanks(Tail(t))

RECURSIVE SplitOn(_, _, _)
SplitOn(sep, cur, t) ==
    IF t = <<>> THEN <<cur>>
    ELSE IF Head(t) = sep THEN <<cur>> \o SplitOn(sep, <<>>, Tail(t))
    ELSE SplitOn(sep, Append(cur, Head(t)), Tail(t))

IsNumber(t) == t # <<>> /\ \A i \in DOMAIN t : IsDigit(t[i])

RECURSIVE NumberValue(_, _)
NumberValue(acc, t) ==
    IF t = <<>> THEN acc
    ELSE NumberValue(10 * acc + DigitValue(Head(t)), Tail(t))

RECURSIVE Product(_)
Product(factors) ==
    IF factors = <<>> THEN 1
    ELSE NumberValue(0, Head(factors)) * Product(Tail(factors))

RECURSIVE Sum(_)
Sum(terms) ==
    IF terms = <<>> THEN 0
    ELSE Product(SplitOn("*", <<>>, Head(terms))) + Sum(Tail(terms))

\* A sum of products of decimal literals.
IsArithmetic(t) ==
    LET terms == SplitOn("+", <<>>, StripBlanks(t))
    IN  \A i \in DOMAIN terms :
            LET factors == SplitOn("*", <<>>, terms[i])
            IN  \A j \in DOMAIN factors : IsNumber(factors[j])

ArithmeticValue(t) == Sum(SplitOn("+", <<>>, StripBlanks(t)))

\* str(n) for a natural number.
RECURSIVE IntStr(_)
IntStr(n) ==
    IF n < 10 THEN <<DigitChars[n + 1]>>
    ELSE IntStr(n \div 10) \o <<DigitChars[(n % 10) + 1]>>

\* eval(expr) with the default namespaces: the builtins are available, so
\* the import call runs.  raised: eval raised; ranCode: it ran code other
\* than arithmetic.
PyEval(expr) ==
    IF Contains(expr, IMPORT_OS)
    THEN IF expr = <<IMPORT_OS>>
         THEN [raised |-> FALSE, ranCode |-> TRUE,
               str |-> <<"<module 'os' (frozen)>">>]
         ELSE [raised |-> TRUE, ranCode |-> TRUE,
               str |-> <<"unsupported operand type(s)">>]
    ELSE IF IsArithmetic(expr)
    THEN [raised |-> FALSE, ranCode |-> FALSE,
          str |-> IntStr(ArithmeticValue(expr))]
    ELSE [raised |-> TRUE, ranCode |-> FALSE,
          str |-> <<"invalid syntax (<string>, line 1)">>]

\* eval(expr, SAFE_MATH_GLOBALS, {}) of line 323: the module defines no
\* SAFE_MATH_GLOBALS, so evaluating the arguments of the call raises
\* NameError before eval is entered.
PyEvalSafe(expr) ==
    [raised |-> TRUE, ranCode |-> FALSE,
     str |-> <<"name 'SAFE_MATH_GLOBALS' is not defined">>]

(***************************************************************************)
(* exec(code, exec_globals) on the three scripts the model draws.          *)
(***************************************************************************)
SCRIPT_RESULT == <<"result = 7">>

SCRIPT_PLAIN == <<"pass">>

SCRIPT_RAISE == <<"raise ValueError('boom')">>

PyExec(code) ==
    IF code = SCRIPT_RESULT
    THEN [raised |-> FALSE, str |-> <<"7">>]
    ELSE IF code = SCRIPT_PLAIN
    THEN [raised |-> FALSE, str |-> <<"Script executed successfully.">>]
    ELSE IF code = SCRIPT_RAISE
    THEN [raised |-> TRUE, str |-> <<"boom">>]
    ELSE [raised |-> TRUE, str |-> <<"invalid syntax (<string>, line 1)">>]

(***************************************************************************)
(* The tools.                                                              *)
(***************************************************************************)
GET_CURRENT_TIME == <<"get_current_time">>

WEB_SEARCH == <<"web_search">>

CALCULATE_MATH == <<"calculate_math">>

RUN_PYTHON_SCRIPT == <<"run_python_script">>

FILE_OPERATION == <<"file_operation">>

ToolNames ==
    {GET_CURRENT_TIME, WEB_SEARCH, CALCULATE_MATH, RUN_PYTHON_SCRIPT,
     FILE_OPERATION}

\* What the network answers to one search request.
NetOutcomes == {"results", "empty", "down"}

get_current_time == <<"Current local time: ", "<now>">>

web_search(query, net) ==
    IF net = "down"
    THEN <<"Error during Wikipedia search: ", "<connection error>",
           ". Try a different query.">>
    ELSE IF net = "empty"
    THEN <<"No relevant Wikipedia articles found for '">> \o query \o <<"'.">>
    ELSE <<"- ", "<title>", ": ", "<snippet>">>

\* The outcome of executing one tool: the text result (of an escaped
\* exception: str(e)), whether an exception was raised inside the tool,
\* whether it escaped the tool boundary, whether calculate_math ran code
\* that is not arithmetic, and the filesystem afterwards.
ToolOut(text, raised, escaped, ranCode, dirs, files, io, target) ==
    [result |-> text, raised |-> raised, escaped |-> escaped,
     ranCode |-> ranCode, dirs |-> dirs, files |-> files, io |-> io,
     target |-> target]

PureOut(text, raised, escaped, ranCode, dirs, files) ==
    ToolOut(text, raised, escaped, ranCode, dirs, files, "none", <<>>)

FileToolOut(f) ==
    ToolOut(f.result, FALSE, FALSE, FALSE, f.dirs, f.files, f.io, f.target)

\* Lines 190-211: a tool named by an inline marker, with the raw argument
\* string of the marker.
execute_function(function_name, args, dirs, files, net) ==
    LET ErrorIn(msg) ==
            PureOut(<<"Error in ">> \o function_name \o <<": ">> \o msg,
                    TRUE, FALSE, FALSE, dirs, files)
    IN  IF function_name = GET_CURRENT_TIME
        THEN PureOut(get_current_time, FALSE, FALSE, FALSE, dirs, files)
        ELSE IF function_name = WEB_SEARCH
        THEN PureOut(web_search(args, net), FALSE, FALSE, FALSE, dirs, files)
        ELSE IF function_name = CALCULATE_MATH
        THEN LET v == PyEval(args)
             IN  IF v.raised
                 THEN [ErrorIn(v.str) EXCEPT !.ranCode = v.ranCode]
                 ELSE PureOut(v.str, FALSE, FALSE, v.ranCode, dirs, files)
        ELSE IF function_name = RUN_PYTHON_SCRIPT
        THEN LET x == PyExec(args)
             IN  IF x.raised THEN ErrorIn(x.str)
                 ELSE PureOut(x.str, FALSE, FALSE, FALSE, dirs, files)
        ELSE IF function_name = FILE_OPERATION
        THEN LET j == json_loads(args)
             IN  IF ~j.ok THEN ErrorIn(JsonErrorStr)
                 ELSE IF ~HasKey(j.obj, <<"operation">>)
                 THEN ErrorIn(KeyErrorStr(<<"operation">>))
                 ELSE IF ~HasKey(j.obj, <<"path">>)
                 THEN ErrorIn(KeyErrorStr(<<"path">>))
                 ELSE FileToolOut(
                          file_operation(dirs, files,
                                         GetKey(j.obj, <<"operation">>),
                                         GetKey(j.obj, <<"path">>),
                                         GetOpt(j.obj, <<"content">>)))
        ELSE PureOut(<<"Error: Unknown function '">> \o function_name
                       \o <<"'.">>,
                     FALSE, FALSE, FALSE, dirs, files)

\* Lines 314-343: one native tool call.  An exception raised outside the
\* inner try blocks escapes the loop to the handler of line 375.
DispatchToolCall(tool_call, dirs, files, net) ==
    LET function_name == tool_call.name
        j == json_loads(tool_call.arguments)
        function_args == j.obj
        Escape(msg) == PureOut(msg, TRUE, TRUE, FALSE, dirs, files)
        Caught(msg) == PureOut(msg, TRUE, FALSE, FALSE, dirs, files)
    IN  IF ~j.ok THEN Escape(JsonErrorStr)
        ELSE IF function_name = GET_CURRENT_TIME
        THEN PureOut(get_current_time, FALSE, FALSE, FALSE, dirs, files)
        ELSE IF function_name = WEB_SEARCH
        THEN IF ~HasKey(function_args, <<"query">>)
             THEN Escape(KeyErrorStr(<<"query">>))
             ELSE PureOut(web_search(GetKey(function_args, <<"query">>), net),
                          FALSE, FALSE, FALSE, dirs, files)
        ELSE IF function_name = CALCULATE_MATH
        THEN IF ~HasKey(function_args, <<"expression">>)
             THEN \* KeyError in the try block, and again in its handler
                  Escape(KeyErrorStr(<<"expression">>))
             ELSE LET v == PyEvalSafe(GetKey(function_args, <<"expression">>))
                  IN  IF v.raised
                      THEN [Caught(<<"Error evaluating expression '">>
                                     \o GetKey(function_args, <<"expression">>)
                                     \o <<"': ">> \o v.str)
                               EXCEPT !.ranCode = v.ranCode]
                      ELSE PureOut(v.str, FALSE, FALSE, v.ranCode, dirs, files)
        ELSE IF function_name = RUN_PYTHON_SCRIPT
        THEN IF ~HasKey(function_args, <<"code">>)
             THEN Caught(<<"Error executing script: ">>
                           \o KeyErrorStr(<<"code">>))
             ELSE LET x == PyExec(GetKey(function_args, <<"code">>))
                  IN  IF x.raised
                      THEN Caught(<<"Error executing script: ">> \o x.str)
                      ELSE PureOut(x.str, FALSE, FALSE, FALSE, dirs, files)
        ELSE IF function_name = FILE_OPERATION
        THEN IF ~HasKey(function_args, <<"operation">>)
             THEN Caught(<<"Error in file operation: ">>
                           \o KeyErrorStr(<<"operation">>))
             ELSE IF ~HasKey(function_args, <<"path">>)
             THEN Caught(<<"Error in file operation: ">>
                           \o KeyErrorStr(<<"path">>))
             ELSE FileToolOut(
                      file_operation(dirs, files,
                                     GetKey(function_args, <<"operation">>),
                                     GetKey(function_args, <<"path">>),
                                     GetOpt(function_args, <<"content">>)))
        ELSE PureOut(<<"Error: Unknown function '">> \o function_name
                       \o <<"'.">>,
                     FALSE, FALSE, FALSE, dirs, files)

(***************************************************************************)
(* The marker scan of lines 244-249, re.search(pattern, buffer): two "[",  *)
(* one or more word characters, ":", zero or more characters other than    *)
(* "]", two "]".  Both repetitions are greedy and are followed by an atom  *)
(* outside their class, so a match at a given start is the maximal run of  *)
(* each.                                                                   *)
(***************************************************************************)
WordChars ==
    {"a", "b", "c", "d", "e", "f", "g", "h", "i", "j", "k", "l", "m", "n",
     "o", "p", "q", "r", "s", "t", "u", "v", "w", "x", "y", "z", "_",
     "0", "1", "2", "3", "4", "5", "6", "7", "8", "9",
     "get_current_time", "web_search", "calculate_math",
     "run_python_script", "file_operation", "no_such_tool"}

IsWordChar(c) == c \in WordChars

\* The end of the maximal run of word atoms that starts at i (i - 1 when
\* there is none).
RECURSIVE WordRunEnd(_, _)
WordRunEnd(buf, i) ==
    IF i <= Len(buf) /\ IsWordChar(buf[i]) THEN WordRunEnd(buf, i + 1)
    ELSE i - 1

\* The end of the maximal run of atoms other than "]" that starts at i.
RECURSIVE ArgRunEnd(_, _)
ArgRunEnd(buf, i) ==
    IF i <= Len(buf) /\ buf[i] # "]" THEN ArgRunEnd(buf, i + 1)
    ELSE i - 1

At(buf, i, c) == i <= Len(buf) /\ buf[i] = c

MatchesAt(buf, i) ==
    /\ At(buf, i, "[")
    /\ At(buf, i + 1, "[")
    /\ WordRunEnd(buf, i + 2) >= i + 2
    /\ At(buf, WordRunEnd(buf, i + 2) + 1, ":")
    /\ At(buf, ArgRunEnd(buf, WordRunEnd(buf, i + 2) + 2) + 1, "]")
    /\ At(buf, ArgRunEnd(buf, WordRunEnd(buf, i + 2) + 2) + 2, "]")

NoMatch == [found |-> FALSE, name |-> <<>>, args |-> <<>>, first |-> 0,
            last |-> 0]

re_search_rightmost(buf) ==
    IF \E i \in DOMAIN buf : MatchesAt(buf, i)
    THEN LET i == CHOOSE k \in DOMAIN buf :
                      /\ MatchesAt(buf, k)
                      /\ \A m \in DOMAIN buf : MatchesAt(buf, m) => k >= m
             w == WordRunEnd(buf, i + 2)
             a == ArgRunEnd(buf, w + 2)
         IN  [found |-> TRUE, name |-> SubSeq(buf, i + 2, w),
              args |-> SubSeq(buf, w + 2, a), first |-> i, last |-> a + 2]
    ELSE NoMatch

\* The leftmost match: first and last are the positions (from 1) of the
\* first and the last atom of the marker, so that buffer[:match.start()]
\* is SubSeq(buf, 1, first - 1) and buffer[match.end():] is Drop(buf, last).
re_search(buf) ==
    IF \E i \in DOMAIN buf : MatchesAt(buf, i)
    THEN LET i == CHOOSE k \in DOMAIN buf :
                      /\ MatchesAt(buf, k)
                      /\ \A m \in DOMAIN buf : MatchesAt(buf, m) => k <= m
             w == WordRunEnd(buf, i + 2)
             a == ArgRunEnd(buf, w + 2)
         IN  [found |-> TRUE, name |-> SubSeq(buf, i + 2, w),
              args |-> SubSeq(buf, w + 2, a), first |-> i, last |-> a + 2]
    ELSE NoMatch

(***************************************************************************)
(* Messages of the conversation history.  A key a message does not have    *)
(* is an empty tool_calls list or an empty tool_call_id.                   *)
(***************************************************************************)
Message(role, text) ==
    [role |-> role, content |-> Some(text), tool_calls |-> <<>>,
     tool_call_id |-> <<>>]

SYSTEM_PROMPT == <<"You are Devstral, a helpful AI assistant ...">>

SystemMessage == Message("system", SYSTEM_PROMPT)

\* Lines 307-311
ToolCallsMessage(assistant_content, tool_calls) ==
    [role |-> "assistant",
     content |-> IF assistant_content # <<>> THEN Some(assistant_content)
                 ELSE None,
     tool_calls |-> tool_calls, tool_call_id |-> <<>>]

\* Lines 347-351
ToolMessage(result, id) ==
    [role |-> "tool", content |-> Some(result), tool_calls |-> <<>>,
     tool_call_id |-> id]

\* Line 267
ResultNote(function_name, result) ==
    <<"[">> \o function_name \o <<" result: ">> \o result \o <<"]">>

\* Line 392: messages[-10:]
HISTORY_WINDOW == 10

\* messages[:10], the oldest messages instead of the newest.
FirstMessages(msgs) ==
    IF Len(msgs) <= HISTORY_WINDOW THEN msgs
    ELSE SubSeq(msgs, 1, HISTORY_WINDOW)

LastMessages(msgs) ==
    IF Len(msgs) <= HISTORY_WINDOW THEN msgs
    ELSE SubSeq(msgs, Len(msgs) - HISTORY_WINDOW + 1, Len(msgs))

(***************************************************************************)
(* The model API.  A completion stream is a sequence of events; an event   *)
(* may have no choices, and otherwise carries a text delta (possibly       *)
(* empty), a list of tool calls (possibly empty) and a finish reason.      *)
(***************************************************************************)
Event(content, calls, finish) ==
    [choices |-> TRUE, content |-> content, tool_calls |-> calls,
     finish_reason |-> finish]

Delta(content) == Event(content, <<>>, "")

Stop == Event(<<>>, <<>>, "stop")

NoChoices ==
    [choices |-> FALSE, content |-> <<>>, tool_calls |-> <<>>,
     finish_reason |-> ""]

ToolCall(id, name, arguments) ==
    [id |-> id, name |-> name, arguments |-> arguments]

Marker(name, args) == <<"[", "[">> \o name \o <<":">> \o args \o <<"]", "]">>

JsonObject1(k, v) ==
    <<"{", QUOTE, k, QUOTE, ":", QUOTE>> \o v \o <<QUOTE, "}">>

JsonObject3(k1, v1, k2, v2, k3, v3) ==
    <<"{", QUOTE, k1, QUOTE, ":", QUOTE>> \o v1
      \o <<QUOTE, ",", QUOTE, k2, QUOTE, ":", QUOTE>> \o v2
      \o <<QUOTE, ",", QUOTE, k3, QUOTE, ":", QUOTE>> \o v3 \o <<QUOTE, "}">>

Expr14 == <<"2", " ", "+", " ", "3", " ", "*", " ", "4">>

WriteArgs == JsonObject3("operation", <<"write">>, "path", <<"a">>,
                         "content", <<"x">>)

\* Initial streams.
PlainStream == <<Delta(<<"h", "i">>), NoChoices, Delta(<<"!">>), Stop>>

PartialMarkerStream == <<Delta(<<"a", "[", "[", "web_search", ":", "q">>), Stop>>

\* One marker, split over two deltas, with text before and after it.
CalcMarkerStream ==
    <<Delta(<<"x", "[", "[", "calculate_math">>),
      Delta(<<":">> \o Expr14 \o <<"]", "]", "y">>),
      Delta(<<"z">>), Stop>>

\* Two markers in two deltas of the same stream.
TwoMarkerStream ==
    <<Delta(Marker(GET_CURRENT_TIME, <<>>)), Delta(<<"a">>),
      Delta(Marker(CALCULATE_MATH, <<IMPORT_OS>>)), Stop>>

FileMarkerStream == <<Delta(Marker(FILE_OPERATION, WriteArgs)), Stop>>

BadMarkerStream ==
    <<Delta(Marker(<<"no_such_tool">>, <<"q">>)),
      Delta(Marker(FILE_OPERATION, <<"{">>)),
      Delta(Marker(WEB_SEARCH, <<"q">>)), Stop>>

NativeStream ==
    <<Delta(<<"t", "[", "[", "web_search", ":">>),
      Event(<<>>, <<ToolCall(<<"call_1">>, CALCULATE_MATH,
                             JsonObject1("expression", Expr14)),
                    ToolCall(<<"call_2">>, GET_CURRENT_TIME, <<"{", "}">>)>>,
            "tool_calls"),
      Delta(<<"u">>)>>

NativeOneStream ==
    <<Event(<<>>, <<ToolCall(<<"call_1">>, RUN_PYTHON_SCRIPT,
                             JsonObject1("code", SCRIPT_RESULT))>>,
            "tool_calls")>>

NativeMalformedStream ==
    <<Event(<<>>, <<ToolCall(<<"call_1">>, GET_CURRENT_TIME, <<"{", "}">>),
                    ToolCall(<<"call_2">>, WEB_SEARCH,
                             <<"{", QUOTE, "query">>)>>, ""),
      Event(<<>>, <<>>, "tool_calls")>>

NativeMissingKeyStream ==
    <<Event(<<"a", "[", "[">>,
            <<ToolCall(<<"call_1">>, WEB_SEARCH, <<"{", "}">>)>>,
            "tool_calls")>>

MarkerThenNativeStream ==
    <<Delta(<<"p">> \o Marker(GET_CURRENT_TIME, <<>>)),
      Event(<<>>, <<ToolCall(<<"call_1">>, CALCULATE_MATH,
                             JsonObject1("expression", <<IMPORT_OS>>))>>,
            "tool_calls")>>

\* One native tool call whose payload arrives in two fragments: the first
\* event carries its id, its name and the beginning of its arguments, the
\* second the rest of its arguments.
FragmentedCallStream ==
    <<Event(<<>>,
            <<ToolCall(<<"call_1">>, RUN_PYTHON_SCRIPT,
                       SubSeq(JsonObject1("code", SCRIPT_RESULT), 1, 5))>>,
            ""),
      Event(<<>>,
            <<ToolCall(<<>>, <<>>,
                       Drop(JsonObject1("code", SCRIPT_RESULT), 5))>>,
            "tool_calls")>>

\* Streams that follow a marker.
PlainFollowUp == <<Delta(<<"o">>), Delta(<<"k">>), Stop>>

MarkerFollowUp ==
    <<Delta(<<"s">> \o Marker(CALCULATE_MATH, <<"1", "+", "1">>)), Stop>>

NativeFollowUp ==
    <<Event(<<"w">>, <<ToolCall(<<"call_9">>, GET_CURRENT_TIME,
                                <<"{", "}">>)>>, "tool_calls"),
      Delta(<<"v">>)>>

\* Streams that follow the native tool calls.
PlainFinal == <<Delta(<<"d", "o", "n", "e">>), Stop>>

MarkerFinal == <<Delta(Marker(GET_CURRENT_TIME, <<>>)), Stop>>

\* What the API may answer with, in each family of runs.
InitialStreams(fam) ==
    IF fam = "full"
    THEN {PlainStream, PartialMarkerStream, CalcMarkerStream, TwoMarkerStream,
          FileMarkerStream, BadMarkerStream, NativeStream,
          NativeMalformedStream, NativeMissingKeyStream,
          MarkerThenNativeStream, FragmentedCallStream}
    ELSE IF fam = "markers"
    THEN {CalcMarkerStream, TwoMarkerStream, MarkerThenNativeStream}
    ELSE {PlainStream, CalcMarkerStream, NativeOneStream}

FollowUpStreams(fam) ==
    IF fam \in {"full", "markers"}
    THEN {PlainFollowUp, MarkerFollowUp, NativeFollowUp}
    ELSE {PlainFollowUp}

FinalStreams(fam) ==
    IF fam \in {"full", "markers"} THEN {PlainFinal, MarkerFinal}
    ELSE {PlainFinal}

ApiErrorStr == <<"<API error>">>

\* Line 377
ErrorResponse(msg) == <<"Error: ">> \o msg

NoStream == [events |-> <<>>, pos |-> 0, status |-> "unopened"]

OpenStream(events) == [events |-> events, pos |-> 0, status |-> "open"]

FinalContentDropsBuffer(assistant_content, buffer) == assistant_content

\* Line 302: what is left in the scan buffer joins the assistant content.
FinalContent(assistant_content, buffer) == assistant_content \o buffer

SplicedContentDropsPrefix(assistant_content, buffer, m, result) ==
    assistant_content \o result

\* Line 256: the marker is replaced by the result of the tool.
SplicedContent(assistant_content, buffer, m, result) ==
    assistant_content \o SubSeq(buffer, 1, m.first - 1) \o result

(***************************************************************************)
(* Inputs of the REPL and of the file operations the model draws.          *)
(***************************************************************************)
UserInputs == {<<"h", "e", "y">>}

DEFAULT_TEMP == "0.15"

TempInputs == {"0.15", "0.7", "abc"}

\* float(temp) of line 406
IsFloat(t) == t \in {"0.15", "0.7"}

EtcPasswd == << <<"e", "t", "c">>, <<"p", "a", "s", "s", "w", "d">> >>

InitialDirs == {<<>>, HomeDir, HomeDir \o <<SiblingName>>, << EtcPasswd[1] >>}

InitialFiles == [p \in {EtcPasswd} |-> <<"r", "o", "o", "t">>]

PathInputs ==
    {<<"a">>,
     <<"d", "/", "a">>,
     <<>>,
     <<".", ".", "/", "devstral_sandbox", "2", "/", "a">>,
     <<"d", "/", ".", ".", "/", ".", ".", "/", ".", ".", "/", ".", ".", "/">>
        \o PathStr(EtcPasswd),
     PathStr(EtcPasswd),
     <<"a", NUL>>}

ContentInputs == {None, Some(<<"x">>), Some(<<"l", "\r", "\n", "m">>)}

OperationInputs == {<<"read">>, <<"write">>, <<"list">>, <<"delete">>}

\* The deltas the marker scan is fed: the atoms the pattern tells apart
\* and the marker of a calculation.
ScanDeltas ==
    {<<"[">>, <<"]">>, <<":">>, <<"a">>,
     Marker(CALCULATE_MATH, <<"2", "+", "2">>)}

NoCall ==
    [operation |-> <<>>, path |-> <<>>, content |-> None, result |-> <<>>,
     io |-> "none", target |-> <<>>]

(***************************************************************************)
(* State.                                                                  *)
(*   main():  pc, messages, temp; turnsLeft bounds the turns of a run and  *)
(*            family names the streams the API may answer with.            *)
(*   get_devstral_response():  assistant_content, tool_calls, buffer,      *)
(*            stream_response, follow_up_stream, tc_index (the position of *)
(*            the loop of line 313) and response (the value returned).     *)
(*   The filesystem:  fsDirs, fsFiles.                                     *)
(*   History of the current turn, kept for the properties:  messages0 (the *)
(*            history when the turn was entered), exc (the exception that  *)
(*            ended the turn), toolLog (the tools executed), seenText (the *)
(*            text delivered by each stream opened, in opening order),     *)
(*            resolved (markers resolved), opened (streams opened).        *)
(*   The driver of file_operation:  fileCall, prevCall (the last two       *)
(*            calls) and fileOps (their number).                           *)
(*   The driver of the marker scan:  scanBuf (the buffer of line 243),     *)
(*            scanCount (the deltas it was fed) and scanMatch (the match   *)
(*            of line 245).                                                *)
(***************************************************************************)
VARIABLES pc, messages, temp, turnsLeft, family,
          assistant_content, tool_calls, buffer, stream_response,
          follow_up_stream, tc_index, response,
          fsDirs, fsFiles,
          messages0, exc, toolLog, seenText, resolved, opened,
          fileCall, prevCall, fileOps,
          scanBuf, scanCount, scanMatch

replVars == <<messages, temp, turnsLeft, family>>

localVars == <<assistant_content, tool_calls, buffer, stream_response,
               follow_up_stream, tc_index, response>>

fsVars == <<fsDirs, fsFiles>>

turnVars == <<messages0, exc, toolLog, seenText, resolved, opened>>

scanVars == <<scanBuf, scanCount, scanMatch>>

driverVars == <<fileCall, prevCall, fileOps, scanVars>>

vars == <<pc, replVars, localVars, fsVars, turnVars, driverVars>>

InitCommon ==
    /\ messages = <<SystemMessage>>
    /\ temp = DEFAULT_TEMP
    /\ assistant_content = <<>>
    /\ tool_calls = <<>>
    /\ buffer = <<>>
    /\ stream_response = NoStream
    /\ follow_up_stream = NoStream
    /\ tc_index = 0
    /\ response = <<>>
    /\ fsDirs = InitialDirs
    /\ fsFiles = InitialFiles
    /\ messages0 = <<>>
    /\ exc = "none"
    /\ toolLog = <<>>
    /\ seenText = <<>>
    /\ resolved = 0
    /\ opened = 0
    /\ fileCall = NoCall
    /\ prevCall = NoCall
    /\ fileOps = 0
    /\ scanBuf = <<>>
    /\ scanCount = 0
    /\ scanMatch = NoMatch

\* Lines 381-389
Init ==
    /\ InitCommon
    /\ pc = "top"
    /\ turnsLeft = MaxTurns
    /\ family = "basic"

\* Turns against every stream of the model.
InitTurn ==
    /\ InitCommon
    /\ pc = "top"
    /\ turnsLeft = MaxFullTurns
    /\ family = "full"

\* Turns against the streams with markers, followed by every stream that
\* may follow a marker or the native tool calls.
InitMarkers ==
    /\ InitCommon
    /\ pc = "top"
    /\ turnsLeft = MaxFullTurns
    /\ family = "markers"

\* The file operations alone.
InitFile ==
    /\ InitCommon
    /\ pc = "files"
    /\ turnsLeft = 0
    /\ family = "basic"

\* The marker scan alone.
InitScan ==
    /\ InitCommon
    /\ pc = "scan"
    /\ turnsLeft = 0
    /\ family = "basic"

ResetTurn ==
    /\ assistant_content' = <<>>
    /\ tool_calls' = <<>>
    /\ buffer' = <<>>
    /\ stream_response' = NoStream
    /\ follow_up_stream' = NoStream
    /\ tc_index' = 0
    /\ response' = <<>>
    /\ messages0' = <<>>
    /\ exc' = "none"
    /\ toolLog' = <<>>
    /\ seenText' = <<>>
    /\ resolved' = 0
    /\ opened' = 0

(***************************************************************************)
(* main(): the REPL loop.                                                  *)
(***************************************************************************)
\* Line 392
Truncate ==
    /\ pc = "top"
    /\ messages' = LastMessages(messages)
    /\ pc' = "input"
    /\ UNCHANGED <<temp, turnsLeft, family, localVars, fsVars, turnVars,
                   driverVars>>

\* Lines 395-397
Exit ==
    /\ pc = "input"
    /\ pc' = "exited"
    /\ UNCHANGED <<replVars, localVars, fsVars, turnVars, driverVars>>

\* Lines 398-402
Clear ==
    /\ pc = "input"
    /\ messages' = <<SystemMessage>>
    /\ pc' = "top"
    /\ UNCHANGED <<temp, turnsLeft, family, localVars, fsVars, turnVars,
                   driverVars>>

\* Lines 403-410
SetTemp ==
    /\ pc = "input"
    /\ \E t \in TempInputs : temp' = IF IsFloat(t) THEN t ELSE DEFAULT_TEMP
    /\ pc' = "top"
    /\ UNCHANGED <<messages, turnsLeft, family, localVars, fsVars, turnVars,
                   driverVars>>

\* Lines 411-413
BlankInput ==
    /\ pc = "input"
    /\ pc' = "top"
    /\ UNCHANGED <<replVars, localVars, fsVars, turnVars, driverVars>>

\* Lines 416-419 and 215-223: the user message is appended and
\* get_devstral_response is entered.
UserTurn ==
    /\ pc = "input"
    /\ turnsLeft > 0
    /\ \E u \in UserInputs :
          /\ messages' = Append(messages, Message("user", u))
          /\ messages0' = Append(messages, Message("user", u))
    /\ turnsLeft' = turnsLeft - 1
    /\ pc' = "open"
    /\ UNCHANGED <<temp, family, localVars, fsVars, exc, toolLog, seenText,
                   resolved, opened, driverVars>>

\* Lines 371/373/377 and 422: the turn returns and its response is
\* appended.
Return ==
    /\ pc = "return"
    /\ messages' = Append(messages, Message("assistant", response))
    /\ ResetTurn
    /\ pc' = "top"
    /\ UNCHANGED <<temp, turnsLeft, family, fsVars, driverVars>>

(***************************************************************************)
(* get_devstral_response(): one turn.                                      *)
(***************************************************************************)
\* Lines 227-233
OpenInitial ==
    /\ pc = "open"
    /\ \E s \in InitialStreams(family) : stream_response' = OpenStream(s)
    /\ seenText' = Append(seenText, <<>>)
    /\ opened' = opened + 1
    /\ pc' = "outer"
    /\ UNCHANGED <<replVars, assistant_content, tool_calls, buffer,
                   follow_up_stream, tc_index, response, fsVars, messages0,
                   exc, toolLog, resolved, driverVars>>

\* The message with the tool calls overwrites the last message of the
\* history instead of being appended to it.
DrainOverwritesLast(ac, buf, calls, msgs) ==
    /\ assistant_content' = FinalContent(ac, buf)
    /\ buffer' = buf
    /\ tool_calls' = calls
    /\ tc_index' = 0
    /\ IF calls # <<>>
       THEN /\ messages' =
                  [msgs EXCEPT ![Len(msgs)] =
                      ToolCallsMessage(FinalContent(ac, buf), calls)]
            /\ response' = response
            /\ pc' = "dispatch"
       ELSE /\ messages' = msgs
            /\ response' = FinalContent(ac, buf)
            /\ pc' = "return"

\* Lines 302-311 and 373, with the assistant content ac, the buffer buf,
\* the tool calls calls and the history msgs of the moment the loop of
\* line 236 is left.
Drain(ac, buf, calls, msgs) ==
    /\ assistant_content' = FinalContent(ac, buf)
    /\ buffer' = buf
    /\ tool_calls' = calls
    /\ tc_index' = 0
    /\ IF calls # <<>>
       THEN /\ messages' =
                  Append(msgs, ToolCallsMessage(FinalContent(ac, buf), calls))
            /\ response' = response
            /\ pc' = "dispatch"
       ELSE /\ messages' = msgs
            /\ response' = FinalContent(ac, buf)
            /\ pc' = "return"

\* Lines 296-299 for the event e of the initial stream, whose position in
\* the stream is pos.
EventTail(e, pos, ac, buf, calls, msgs) ==
    IF e.finish_reason = "tool_calls"
    THEN /\ stream_response' =
               [stream_response EXCEPT !.pos = pos, !.status = "abandoned"]
         /\ Drain(ac, buf, calls \o e.tool_calls, msgs)
    ELSE /\ stream_response' = [stream_response EXCEPT !.pos = pos]
         /\ assistant_content' = ac
         /\ buffer' = buf
         /\ tool_calls' = calls \o e.tool_calls
         /\ tc_index' = tc_index
         /\ messages' = msgs
         /\ response' = response
         /\ pc' = "outer"

AppendLast(texts, t) ==
    [texts EXCEPT ![Len(texts)] = texts[Len(texts)] \o t]

LogEntry(path, name, args, id, out) ==
    [path |-> path, name |-> name, args |-> args, id |-> id,
     result |-> out.result, raised |-> out.raised, escaped |-> out.escaped,
     ranCode |-> out.ranCode]

\* Lines 236-271 and 296-299: one event of the initial stream.
OuterEvent ==
    /\ pc = "outer"
    /\ stream_response.pos < Len(stream_response.events)
    /\ \E net \in NetOutcomes :
          LET pos == stream_response.pos + 1
              e == stream_response.events[pos]
              buf == buffer \o e.content
              m == re_search(buf)
              out == execute_function(m.name, m.args, fsDirs, fsFiles, net)
          IN  /\ seenText' = [seenText EXCEPT ![1] = seenText[1] \o e.content]
              /\ IF ~e.choices
                 THEN /\ stream_response' =
                            [stream_response EXCEPT !.pos = pos]
                      /\ UNCHANGED <<messages, assistant_content, tool_calls,
                                     buffer, tc_index, response, fsVars,
                                     toolLog>>
                      /\ pc' = "outer"
                 ELSE IF e.content # <<>> /\ m.found
                 THEN /\ stream_response' =
                            [stream_response EXCEPT !.pos = pos]
                      /\ messages' = messages \o
                            <<Message("assistant",
                                      SplicedContent(assistant_content, buf,
                                                     m, out.result)),
                              Message("assistant",
                                      ResultNote(m.name, out.result))>>
                      /\ assistant_content' = <<>>
                      /\ buffer' = Drop(buf, m.last)
                      /\ fsDirs' = out.dirs
                      /\ fsFiles' = out.files
                      /\ toolLog' = Append(toolLog,
                            LogEntry("inline", m.name, m.args, <<>>, out))
                      /\ UNCHANGED <<tool_calls, tc_index, response>>
                      /\ pc' = "follow_open"
                 ELSE /\ EventTail(e, pos, assistant_content, buf, tool_calls,
                                   messages)
                      /\ UNCHANGED <<fsVars, toolLog>>
    /\ UNCHANGED <<temp, turnsLeft, family, follow_up_stream, messages0, exc,
                   resolved, opened, driverVars>>

\* Line 236: the initial stream is exhausted; lines 302-311.
OuterExhausted ==
    /\ pc = "outer"
    /\ stream_response.pos = Len(stream_response.events)
    /\ stream_response' = [stream_response EXCEPT !.status = "consumed"]
    /\ Drain(assistant_content, buffer, tool_calls, messages)
    /\ UNCHANGED <<temp, turnsLeft, family, follow_up_stream, fsVars,
                   turnVars, driverVars>>

\* Lines 272-281: a new stream is opened for the marker just resolved.
OpenFollowUp ==
    /\ pc = "follow_open"
    /\ \E s \in FollowUpStreams(family) : follow_up_stream' = OpenStream(s)
    /\ buffer' = <<>>
    /\ seenText' = Append(seenText, <<>>)
    /\ opened' = opened + 1
    /\ resolved' = resolved + 1
    /\ pc' = "inner"
    /\ UNCHANGED <<replVars, assistant_content, tool_calls, stream_response,
                   tc_index, response, fsVars, messages0, exc, toolLog,
                   driverVars>>

\* The buffer of the stream that followed a marker is scanned when the
\* stream is left, and a marker in it opens one more stream.
AfterInnerRescans(ac, calls) ==
    IF re_search(buffer).found
    THEN /\ buffer' = Drop(buffer, re_search(buffer).last)
         /\ assistant_content' = <<>>
         /\ tool_calls' = calls
         /\ pc' = "follow_open"
         /\ UNCHANGED <<stream_response, tc_index, messages, response>>
    ELSE EventTail(stream_response.events[stream_response.pos],
                   stream_response.pos, ac, <<>>, calls, messages)

\* Lines 293-299: the loop of line 282 is left with the assistant content
\* ac and the tool calls calls; the event of the initial stream that held
\* the marker is finished.
AfterInner(ac, calls) ==
    EventTail(stream_response.events[stream_response.pos],
              stream_response.pos, ac, <<>>, calls, messages)

\* Lines 282-292: one event of the stream that follows a marker.
InnerEvent ==
    /\ pc = "inner"
    /\ follow_up_stream.pos < Len(follow_up_stream.events)
    /\ LET pos == follow_up_stream.pos + 1
           e == follow_up_stream.events[pos]
       IN  /\ seenText' = AppendLast(seenText, e.content)
           /\ IF ~e.choices
              THEN /\ follow_up_stream' =
                         [follow_up_stream EXCEPT !.pos = pos]
                   /\ UNCHANGED <<messages, assistant_content, tool_calls,
                                  buffer, stream_response, tc_index,
                                  response>>
                   /\ pc' = "inner"
              ELSE IF e.finish_reason = "tool_calls"
              THEN /\ follow_up_stream' =
                         [follow_up_stream EXCEPT !.pos = pos,
                                                  !.status = "abandoned"]
                   /\ AfterInner(assistant_content \o e.content,
                                 tool_calls \o e.tool_calls)
              ELSE /\ follow_up_stream' =
                         [follow_up_stream EXCEPT !.pos = pos]
                   /\ buffer' = buffer \o e.content
                   /\ assistant_content' = assistant_content \o e.content
                   /\ tool_calls' = tool_calls \o e.tool_calls
                   /\ UNCHANGED <<messages, stream_response, tc_index,
                                  response>>
                   /\ pc' = "inner"
    /\ UNCHANGED <<temp, turnsLeft, family, fsVars, messages0, exc, toolLog,
                   resolved, opened, driverVars>>

\* Line 282: the stream that follows a marker is exhausted.
InnerExhausted ==
    /\ pc = "inner"
    /\ follow_up_stream.pos = Len(follow_up_stream.events)
    /\ follow_up_stream' = [follow_up_stream EXCEPT !.status = "consumed"]
    /\ AfterInner(assistant_content, tool_calls)
    /\ UNCHANGED <<temp, turnsLeft, family, fsVars, turnVars, driverVars>>

\* Lines 313-351: one native tool call.  An exception that escapes is
\* caught at line 375 and ends the turn.
DispatchOne ==
    /\ pc = "dispatch"
    /\ tc_index < Len(tool_calls)
    /\ \E net \in NetOutcomes :
          LET tool_call == tool_calls[tc_index + 1]
              out == DispatchToolCall(tool_call, fsDirs, fsFiles, net)
          IN  /\ toolLog' = Append(toolLog,
                    LogEntry("native", tool_call.name, tool_call.arguments,
                             tool_call.id, out))
              /\ fsDirs' = out.dirs
              /\ fsFiles' = out.files
              /\ IF out.escaped
                 THEN /\ response' = ErrorResponse(out.result)
                      /\ exc' = "tool"
                      /\ pc' = "return"
                      /\ UNCHANGED <<messages, tc_index>>
                 ELSE /\ messages' =
                            Append(messages,
                                   ToolMessage(out.result, tool_call.id))
                      /\ tc_index' = tc_index + 1
                      /\ pc' = IF tc_index + 1 = Len(tool_calls)
                               THEN "final_open" ELSE "dispatch"
                      /\ UNCHANGED <<response, exc>>
    /\ UNCHANGED <<temp, turnsLeft, family, assistant_content, tool_calls,
                   buffer, stream_response, follow_up_stream, messages0,
                   seenText, resolved, opened, driverVars>>

\* Lines 354-361
OpenFinal ==
    /\ pc = "final_open"
    /\ assistant_content' = <<>>
    /\ \E s \in FinalStreams(family) : follow_up_stream' = OpenStream(s)
    /\ seenText' = Append(seenText, <<>>)
    /\ opened' = opened + 1
    /\ pc' = "final"
    /\ UNCHANGED <<replVars, tool_calls, buffer, stream_response, tc_index,
                   response, fsVars, messages0, exc, toolLog, resolved,
                   driverVars>>

\* Lines 363-368
FinalEvent ==
    /\ pc = "final"
    /\ follow_up_stream.pos < Len(follow_up_stream.events)
    /\ LET pos == follow_up_stream.pos + 1
           e == follow_up_stream.events[pos]
       IN  /\ follow_up_stream' = [follow_up_stream EXCEPT !.pos = pos]
           /\ seenText' = AppendLast(seenText, e.content)
           /\ assistant_content' =
                 IF e.choices THEN assistant_content \o e.content
                 ELSE assistant_content
    /\ pc' = "final"
    /\ UNCHANGED <<replVars, tool_calls, buffer, stream_response, tc_index,
                   response, fsVars, messages0, exc, toolLog, resolved,
                   opened, driverVars>>

\* Lines 363 and 369-371
FinalExhausted ==
    /\ pc = "final"
    /\ follow_up_stream.pos = Len(follow_up_stream.events)
    /\ follow_up_stream' = [follow_up_stream EXCEPT !.status = "consumed"]
    /\ response' = assistant_content
    /\ pc' = "return"
    /\ UNCHANGED <<replVars, assistant_content, tool_calls, buffer,
                   stream_response, tc_index, fsVars, turnVars, driverVars>>

\* The API raises and nothing catches it: the process ends.
ApiFailureEscapes ==
    /\ pc \in {"open", "outer", "follow_open", "inner", "final_open", "final"}
    /\ exc' = "api"
    /\ pc' = "exited"
    /\ UNCHANGED <<replVars, localVars, fsVars, messages0, toolLog, seenText,
                   resolved, opened, driverVars>>

\* Lines 375-377: the API raises, when a stream is opened or read.
ApiFailure ==
    /\ pc \in {"open", "outer", "follow_open", "inner", "final_open", "final"}
    /\ response' = ErrorResponse(ApiErrorStr)
    /\ exc' = "api"
    /\ pc' = "return"
    /\ UNCHANGED <<replVars, assistant_content, tool_calls, buffer,
                   stream_response, follow_up_stream, tc_index, fsVars,
                   messages0, toolLog, seenText, resolved, opened,
                   driverVars>>

(***************************************************************************)
(* The driver of file_operation: one call with drawn arguments.            *)
(***************************************************************************)
FileCall ==
    /\ pc = "files"
    /\ fileOps < MaxFileOps
    /\ \E operation \in OperationInputs, path \in PathInputs,
          content \in ContentInputs :
          \E f \in {file_operation(fsDirs, fsFiles, operation, path,
                                   content)} :
              /\ fsDirs' = f.dirs
              /\ fsFiles' = f.files
              /\ fileCall' = [operation |-> operation, path |-> path,
                              content |-> content, result |-> f.result,
                              io |-> f.io, target |-> f.target]
    /\ prevCall' = fileCall
    /\ fileOps' = fileOps + 1
    /\ UNCHANGED <<pc, replVars, localVars, turnVars, scanVars>>

(***************************************************************************)
(* The driver of the marker scan: lines 243-249 for one delta, the buffer  *)
(* growing as it does in the loop of line 236 while no marker is complete. *)
(***************************************************************************)
ScanDelta ==
    /\ pc = "scan"
    /\ scanCount < MaxScanDeltas
    /\ \E content \in ScanDeltas :
          /\ scanBuf' = scanBuf \o content
          /\ scanMatch' = re_search(scanBuf \o content)
    /\ scanCount' = scanCount + 1
    /\ UNCHANGED <<pc, replVars, localVars, fsVars, turnVars, fileCall,
                   prevCall, fileOps>>

Next ==
    \/ Truncate
    \/ Exit
    \/ Clear
    \/ SetTemp
    \/ BlankInput
    \/ UserTurn
    \/ Return
    \/ OpenInitial
    \/ OuterEvent
    \/ OuterExhausted
    \/ OpenFollowUp
    \/ InnerEvent
    \/ InnerExhausted
    \/ DispatchOne
    \/ OpenFinal
    \/ FinalEvent
    \/ FinalExhausted
    \/ ApiFailure

NextFile == FileCall

NextScan == ScanDelta

Spec == Init /\ [][Next]_vars

SpecTurn == InitTurn /\ [][Next]_vars

SpecMarkers == InitMarkers /\ [][Next]_vars

SpecFile == InitFile /\ [][NextFile]_vars

SpecScan == InitScan /\ [][NextScan]_vars

(***************************************************************************)
(* Vocabulary of the properties.                                           *)
(***************************************************************************)
ContainsSeq(s, sub) ==
    \E i \in 1..(Len(s) - Len(sub) + 1) : SubSeq(s, i, i + Len(sub) - 1) = sub

EndsWith(s, suffix) ==
    /\ Len(suffix) <= Len(s)
    /\ SubSeq(s, Len(s) - Len(suffix) + 1, Len(s)) = suffix

\* The first atoms of the error strings of the program.
ErrorPrefixes ==
    {"Error: ", "Error in ", "Error: Unknown function '",
     "Error evaluating expression '", "Error executing script: ",
     "Error in file operation: ", "Error: Invalid path - ",
     "Error: Path is outside the allowed directory.",
     "Error: Content is required for write operation.",
     "Error during file operation: ", "Error: Unsupported operation '",
     "Error during Wikipedia search: "}

IsErrorString(t) == t # <<>> /\ Head(t) \in ErrorPrefixes

\* The complete markers of a text, counted from left to right.
RECURSIVE CountMarkers(_)
CountMarkers(t) ==
    IF re_search(t).found THEN 1 + CountMarkers(Drop(t, re_search(t).last))
    ELSE 0

RECURSIVE TotalMarkers(_)
TotalMarkers(texts) ==
    IF texts = <<>> THEN 0
    ELSE CountMarkers(Head(texts)) + TotalMarkers(Tail(texts))

\* The expression a logged calculate_math call was given.
LoggedExpression(entry) ==
    IF entry.path = "inline" THEN entry.args
    ELSE GetKey(json_loads(entry.args).obj, <<"expression">>)

\* The turn has returned without a failure of the API.
TurnReturned == pc = "return" /\ exc # "api"

\* The first marker of the turn has been resolved up to the opening of
\* its follow-up stream.
AtFirstFollowUp == pc = "follow_open" /\ resolved = 0

FirstMarker == re_search(seenText[1])

TextBeforeFirstMarker == SubSeq(seenText[1], 1, FirstMarker.first - 1)

(***************************************************************************)
(* C1.  After any sequence of turns and commands, the history truncated to *)
(* its last 10 messages (the history the REPL reads its next input with)   *)
(* has the system message as its first message.                            *)
(***************************************************************************)
C1_SystemMessageFirst ==
    pc = "input" => messages # <<>> /\ messages[1] = SystemMessage

(***************************************************************************)
(* C2.  For every path given to file_operation, either the resolved target *)
(* is a descendant of the sandbox root, or the call returns an error       *)
(* string and reads, writes and lists nothing.                             *)
(***************************************************************************)
C2_PathConfined ==
    fileOps > 0 =>
        \/ IsDescendant(fileCall.target)
        \/ fileCall.io = "none" /\ IsErrorString(fileCall.result)

(***************************************************************************)
(* C3.  When a turn returns, every complete marker of the text streamed in *)
(* the turn, by the initial stream or by a stream restarted after a        *)
(* marker, has been resolved: its tool executed, its result recorded and a *)
(* new stream opened.                                                      *)
(***************************************************************************)
C3_EveryMarkerResolved ==
    (pc = "return" /\ exc = "none") => resolved = TotalMarkers(seenText)

(***************************************************************************)
(* C4 as claimed.  When the follow-up stream of the first marker of a turn *)
(* is about to be opened, the history has gained exactly two assistant     *)
(* messages: the text that preceded the marker, then the tool result.      *)
(***************************************************************************)
C4_TwoMessagesTextBeforeMarker ==
    AtFirstFollowUp =>
        messages = messages0 \o
            <<Message("assistant", TextBeforeFirstMarker),
              Message("assistant",
                      ResultNote(FirstMarker.name, toolLog[1].result))>>

(***************************************************************************)
(* C4 as amended.  When the follow-up stream of the first marker of a turn *)
(* is about to be opened, the history has gained exactly two assistant     *)
(* messages: the text that preceded the marker followed by the result of   *)
(* the tool (the marker replaced by its result), then the note recording   *)
(* the tool result.                                                        *)
(***************************************************************************)
C4_TwoMessagesSplicedResult ==
    AtFirstFollowUp =>
        /\ Len(toolLog) = 1
        /\ toolLog[1].name = FirstMarker.name
        /\ messages = messages0 \o
              <<Message("assistant",
                        TextBeforeFirstMarker \o toolLog[1].result),
                Message("assistant",
                        ResultNote(FirstMarker.name, toolLog[1].result))>>

\* C4: the marker of CalcMarkerStream, with text before it, is resolved.
C4_Witness ==
    /\ AtFirstFollowUp
    /\ TextBeforeFirstMarker = <<"x">>
    /\ toolLog[1].result = <<"1", "4">>
    /\ Len(messages) = Len(messages0) + 2

(***************************************************************************)
(* C5.  When a turn whose streams delivered native tool calls returns, the *)
(* history ends with one assistant message carrying the tool-call list     *)
(* followed by one tool message per call, in the order of the list and     *)
(* tagged with the identifier of its call; the calls were executed in that *)
(* order; one follow-up stream was opened after them and its text is the   *)
(* response.                                                               *)
(***************************************************************************)
C5_NativeRoundTrip ==
    (TurnReturned /\ tool_calls # <<>>) =>
        LET n == Len(tool_calls)
            k == Len(messages)
            native == SelectSeq(toolLog, LAMBDA entry : entry.path = "native")
        IN  /\ k >= Len(messages0) + n + 1
            /\ messages[k - n].role = "assistant"
            /\ messages[k - n].tool_calls = tool_calls
            /\ \A i \in 1..n :
                  /\ messages[k - n + i].role = "tool"
                  /\ messages[k - n + i].tool_call_id = tool_calls[i].id
            /\ Len(native) = n
            /\ \A i \in 1..n : native[i].id = tool_calls[i].id
            /\ opened = resolved + 2
            /\ response = seenText[Len(seenText)]

(***************************************************************************)
(* C6.  No tool execution raises past the tool boundary, on the marker     *)
(* path or the native path, and a tool execution that failed gives an      *)
(* error string that names the failing tool.                               *)
(***************************************************************************)
C6_ToolsNeverRaise ==
    /\ exc # "tool"
    /\ \A i \in DOMAIN toolLog :
          /\ ~toolLog[i].escaped
          /\ toolLog[i].raised =>
                /\ IsErrorString(toolLog[i].result)
                /\ ContainsSeq(toolLog[i].result, toolLog[i].name)

(***************************************************************************)
(* C7.  calculate_math, on either path, returns the value of an arithmetic *)
(* expression, and for any other input returns an error without running    *)
(* code.                                                                   *)
(***************************************************************************)
C7_CalculateMath ==
    \A i \in DOMAIN toolLog :
        (toolLog[i].name = CALCULATE_MATH /\ ~toolLog[i].escaped) =>
            LET expr == LoggedExpression(toolLog[i])
            IN  IF IsArithmetic(expr)
                THEN toolLog[i].result = IntStr(ArithmeticValue(expr))
                ELSE IsErrorString(toolLog[i].result) /\ ~toolLog[i].ranCode

(***************************************************************************)
(* C8.  Two completion streams are never open at once: when a follow-up    *)
(* stream is open, the stream before it has been consumed or abandoned.    *)
(***************************************************************************)
C8_OneStreamOpen ==
    ~(stream_response.status = "open" /\ follow_up_stream.status = "open")

(***************************************************************************)
(* C9 as claimed.  When a turn returns without error, the text left in the *)
(* scan buffer when the stream ended is at the end of the response; and    *)
(* with no marker and no native tool call the response is the              *)
(* concatenation of the text deltas in arrival order.                      *)
(***************************************************************************)
C9_LeftoverInResponse ==
    (pc = "return" /\ exc = "none") =>
        /\ EndsWith(response, buffer)
        /\ (resolved = 0 /\ tool_calls = <<>>) => response = seenText[1]

(***************************************************************************)
(* C9 as amended.  When a turn without native tool calls returns, no error *)
(* was raised and the text left in the scan buffer when the stream ended   *)
(* is at the end of the response: the response is the text of the last     *)
(* stream opened for a marker followed by the leftover text, and with no   *)
(* marker it is the concatenation of the text deltas in arrival order.     *)
(***************************************************************************)
C9_LeftoverInResponseNoToolCalls ==
    (TurnReturned /\ tool_calls = <<>>) =>
        /\ exc = "none"
        /\ EndsWith(response, buffer)
        /\ resolved > 0 => response = seenText[Len(seenText)] \o buffer
        /\ resolved = 0 => response = seenText[1]

\* C9: a stream ended inside an unfinished marker, and the turn returned.
C9_Witness ==
    /\ TurnReturned
    /\ tool_calls = <<>>
    /\ buffer = <<"a", "[", "[", "web_search", ":", "q">>
    /\ response = buffer

(***************************************************************************)
(* C10.  A successful write to a path inside the sandbox, directly         *)
(* followed by a read of the same path, returns exactly the content        *)
(* written.                                                                *)
(***************************************************************************)
C10_WriteReadRoundTrip ==
    (/\ prevCall.io = "write"
     /\ IsDescendant(prevCall.target)
     /\ fileCall.operation = <<"read">>
     /\ fileCall.target = prevCall.target) =>
        fileCall.result = prevCall.content.val

(***************************************************************************)
(* Vocabulary of the marker scan: the pattern of line 244 as a relation    *)
(* between a text and the positions of one of its markers.                 *)
(***************************************************************************)
\* The marker of buf that starts at i, whose name ends at j and whose
\* arguments end at k (at j + 1 when there are none).
IsMarkerSpan(buf, i, j, k) ==
    /\ i + 2 <= j
    /\ j + 1 <= k
    /\ k + 2 <= Len(buf)
    /\ buf[i] = "["
    /\ buf[i + 1] = "["
    /\ \A n \in (i + 2)..j : IsWordChar(buf[n])
    /\ buf[j + 1] = ":"
    /\ \A n \in (j + 2)..k : buf[n] # "]"
    /\ buf[k + 1] = "]"
    /\ buf[k + 2] = "]"

HasMarkerAt(buf, i) ==
    /\ buf[i] = "["
    /\ \E j \in (i + 2)..(Len(buf) - 3) :
          /\ buf[j + 1] = ":"
          /\ \E k \in (j + 1)..(Len(buf) - 2) : IsMarkerSpan(buf, i, j, k)

MarkerStarts(buf) == {i \in DOMAIN buf : HasMarkerAt(buf, i)}

CalcLiteral == Marker(CALCULATE_MATH, <<"2", "+", "2">>)

(***************************************************************************)
(* C11.  The marker scan finds no marker in a buffer that holds no text of *)
(* the form "[[", word characters, ":", characters other than "]", "]]";   *)
(* in any other buffer it finds the leftmost such text and no other, with  *)
(* its name, its raw arguments and the positions of its first and last     *)
(* atoms.  In the buffer "[[calculate_math:2+2]]" it finds the name        *)
(* calculate_math, the arguments "2+2" and the whole buffer as the span.   *)
(***************************************************************************)
C11_ScanLeftmostMarker ==
    pc = "scan" =>
        /\ MarkerStarts(scanBuf) = {} => scanMatch = NoMatch
        /\ \A i \in MarkerStarts(scanBuf) :
              (\A m \in MarkerStarts(scanBuf) : i <= m) =>
                  \E j \in (i + 2)..Len(scanBuf), k \in (i + 3)..Len(scanBuf) :
                      /\ IsMarkerSpan(scanBuf, i, j, k)
                      /\ scanMatch =
                            [found |-> TRUE,
                             name |-> SubSeq(scanBuf, i + 2, j),
                             args |-> SubSeq(scanBuf, j + 2, k),
                             first |-> i, last |-> k + 2]
        /\ scanBuf = CalcLiteral =>
              scanMatch = [found |-> TRUE, name |-> CALCULATE_MATH,
                           args |-> <<"2", "+", "2">>,
                           first |-> 1, last |-> Len(CalcLiteral)]

\* A buffer with two markers after a first atom: the scan has found the
\* first one.
C11_Witness ==
    /\ pc = "scan"
    /\ scanBuf = <<"a">> \o CalcLiteral \o CalcLiteral
    /\ scanMatch.found
    /\ scanMatch.first = 2
    /\ scanMatch.last = 1 + Len(CalcLiteral)

\* The positions of a turn at which the API is called.
ApiPoints == {"open", "outer", "follow_open", "inner", "final_open", "final"}

\* The positions inside get_devstral_response.
TurnPoints == ApiPoints \cup {"dispatch", "return"}

(***************************************************************************)
(* C12.  A failure of the API at any point of a turn (when the initial     *)
(* stream is opened, when a delta is read, when a follow-up stream is      *)
(* opened or read) does not leave get_devstral_response as an exception:   *)
(* the turn returns an error string, main() appends that string to the     *)
(* history as the response of the assistant, and the loop goes on to read  *)
(* the next input.                                                         *)
(***************************************************************************)
C12_ApiFailureContained ==
    [][/\ pc \in TurnPoints => pc' # "exited"
       /\ (pc \in ApiPoints /\ exc' = "api") =>
              /\ pc' = "return"
              /\ IsErrorString(response')
       /\ (pc = "return" /\ exc = "api") =>
              /\ IsErrorString(response)
              /\ messages' = Append(messages, Message("assistant", response))
              /\ pc' = "top"
       /\ pc = "top" => pc' = "input"]_vars

\* The API has failed after a native tool call was answered, and the REPL
\* reads its next input with the error string as the last response.
C12_Witness ==
    /\ pc = "input"
    /\ Len(messages) >= 2
    /\ messages[Len(messages)] =
          Message("assistant", ErrorResponse(ApiErrorStr))
    /\ messages[Len(messages) - 1].role = "tool"

\* kept holds the n most recent messages of all (all of them when there are
\* fewer), in their order.
IsMostRecent(kept, all, n) ==
    /\ Len(kept) = IF Len(all) <= n THEN Len(all) ELSE n
    /\ \A i \in 1..Len(kept) : kept[i] = all[Len(all) - Len(kept) + i]

(***************************************************************************)
(* C13.  Whenever the REPL is about to read an input, the history holds at *)
(* most 10 messages, and they are the 10 most recent messages of the       *)
(* history the loop iteration began with, in their order.                  *)
(***************************************************************************)
C13_LastTenMessages ==
    /\ [](pc = "input" => Len(messages) <= HISTORY_WINDOW)
    /\ [][pc = "top" =>
              /\ pc' = "input"
              /\ IsMostRecent(messages', messages, HISTORY_WINDOW)]_vars

\* The REPL reads an input with a history that was cut: it is full and its
\* first message is no longer the system message.
C13_Witness ==
    /\ pc = "input"
    /\ Len(messages) = HISTORY_WINDOW
    /\ messages[1].role # "system"
    /\ messages[Len(messages)].role = "assistant"

(***************************************************************************)
(* C14.  When a marker is detected, the text that follows it in the scan   *)
(* buffer is kept as the new scan buffer: when the stream that follows     *)
(* the first marker of a turn has been opened and nothing of it has been   *)
(* read, the buffer is the text the initial stream delivered after that    *)
(* marker.                                                                 *)
(***************************************************************************)
C14_TextAfterMarkerKept ==
    (pc = "inner" /\ resolved = 1 /\ follow_up_stream.pos = 0) =>
        buffer = Drop(seenText[1], FirstMarker.last)

\* The tool-role messages the turn has appended so far.
ToolMessagesOfTurn ==
    {i \in DOMAIN messages : i > Len(messages0) /\ messages[i].role = "tool"}

(***************************************************************************)
(* C15.  When the payload of one native tool call arrives in fragments     *)
(* over several events of the stream, the turn assembles them into that    *)
(* one call: when the turn returns, the tool has been executed exactly     *)
(* once, with the complete arguments, and exactly one tool message has     *)
(* been appended for it.                                                   *)
(***************************************************************************)
C15_FragmentsAssembled ==
    (TurnReturned /\ stream_response.events = FragmentedCallStream) =>
        /\ Len(toolLog) = 1
        /\ toolLog[1].name = RUN_PYTHON_SCRIPT
        /\ toolLog[1].args = JsonObject1("code", SCRIPT_RESULT)
        /\ ~toolLog[1].escaped
        /\ Cardinality(ToolMessagesOfTurn) = 1

(***************************************************************************)
(* C16.  During a turn the history changes only by appending: at every     *)
(* point of get_devstral_response, up to its return with a response or     *)
(* with an error string, every message the history held when the turn was  *)
(* entered is at the same index, with the same role and content.           *)
(***************************************************************************)
C16_HistoryOnlyGrows ==
    pc \in TurnPoints =>
        /\ Len(messages0) <= Len(messages)
        /\ \A i \in DOMAIN messages0 : messages[i] = messages0[i]

\* A turn that appended messages and then ended with an error string.
C16_Witness ==
    /\ pc = "return"
    /\ exc # "none"
    /\ Len(messages0) >= 2
    /\ Len(messages) > Len(messages0)
    /\ \A i \in DOMAIN messages0 : messages[i] = messages0[i]

\* The positions of a turn at which the history is sent to the API.
SendPoints == {"open", "follow_open", "final_open"}

\* The message at index i of msgs answers a tool call that an assistant
\* message before it, in msgs, asked for.
HasRequest(msgs, i) ==
    \E j \in 1..(i - 1) :
        /\ msgs[j].role = "assistant"
        /\ \E k \in DOMAIN msgs[j].tool_calls :
              msgs[j].tool_calls[k].id = msgs[i].tool_call_id

(***************************************************************************)
(* C17.  In every message list sent to the API, each tool message comes    *)
(* after the assistant message whose tool calls hold the call with its     *)
(* tool_call_id: the cut of the history to its last 10 messages never      *)
(* parts a tool result from the assistant message that asked for it.       *)
(***************************************************************************)
C17_ToolResultsPaired ==
    pc \in SendPoints =>
        \A i \in DOMAIN messages :
            messages[i].role = "tool" => HasRequest(messages, i)

(***************************************************************************)
(* C18.  When a turn ends, with a response or with an error string, every  *)
(* assistant message with tool calls that the turn appended is followed    *)
(* by one tool message for each of its calls, in their order: an           *)
(* exception raised while a native tool call is handled does not leave     *)
(* such a message without its tool results.                                *)
(***************************************************************************)
C18_ToolCallsAnswered ==
    pc = "return" =>
        \A i \in DOMAIN messages :
            (i > Len(messages0) /\ messages[i].tool_calls # <<>>) =>
                \A k \in DOMAIN messages[i].tool_calls :
                    /\ i + k <= Len(messages)
                    /\ messages[i + k].role = "tool"
                    /\ messages[i + k].tool_call_id =
                          messages[i].tool_calls[k].id

(***************************************************************************)
(* Vocabulary of termination: a measure of what is left of a turn, a       *)
(* tuple of naturals ordered from its first component on.                  *)
(***************************************************************************)
\* The stages of a turn, from its entry (5) to its return (0).
Stage ==
    CASE pc = "open" -> 5
      [] pc \in {"outer", "follow_open", "inner"} -> 4
      [] pc = "dispatch" -> 3
      [] pc = "final_open" -> 2
      [] pc = "final" -> 1
      [] OTHER -> 0

\* The events of a stream that have not been read.
Unread(stream) == Len(stream.events) - stream.pos

\* The stage; what the stage has left (events of the initial stream, tool
\* calls, events of the last stream); within a marker, whether its stream
\* is still to be opened (2) or is open (1); and what that stream has left.
Measure ==
    <<Stage,
      CASE Stage = 4 -> Unread(stream_response)
        [] Stage = 3 -> Len(tool_calls) - tc_index
        [] Stage = 1 -> Unread(follow_up_stream)
        [] OTHER -> 0,
      CASE pc = "follow_open" -> 2
        [] pc = "inner" -> 1
        [] OTHER -> 0,
      IF pc = "inner" THEN Unread(follow_up_stream) ELSE 0>>

\* The positions of a turn that has not returned.
RunningPoints == ApiPoints \cup {"dispatch"}

LexLess(a, b) ==
    \E i \in DOMAIN a :
        /\ a[i] < b[i]
        /\ \A j \in 1..(i - 1) : a[j] = b[j]

\* The turn is not stuck: the program has a next step to take.
CanStep ==
    /\ pc = "outer" => stream_response.pos <= Len(stream_response.events)
    /\ pc \in {"inner", "final"} =>
          follow_up_stream.pos <= Len(follow_up_stream.events)
    /\ pc = "dispatch" => tc_index < Len(tool_calls)

(***************************************************************************)
(* C19.  Every turn terminates, its streams being finite and its tools     *)
(* returning: until it returns the turn always has a next step, and every  *)
(* step of it lowers a measure that cannot be lowered for ever.  The turn  *)
(* opens at most 2 streams more than the markers it detected in the        *)
(* initial stream, and these are never more than the markers of the text   *)
(* the initial stream delivered, whatever markers and tool calls the       *)
(* later streams deliver.                                                  *)
(***************************************************************************)
C19_TurnTerminates ==
    /\ [](pc \in TurnPoints =>
              /\ opened <= 2 + resolved
              /\ seenText # <<>> => resolved <= CountMarkers(seenText[1])
              /\ CanStep
              /\ \A i \in DOMAIN Measure : Measure[i] \in Nat)
    /\ [][(pc \in RunningPoints) => LexLess(Measure', Measure)]_vars

\* A turn has returned after a stream that followed a marker delivered a
\* marker of its own, left unresolved, and after its native tool calls
\* were answered by a last stream.
C19_Witness ==
    /\ pc = "return"
    /\ exc = "none"
    /\ resolved >= 1
    /\ opened = resolved + 2
    /\ TotalMarkers(seenText) > resolved
    /\ CountMarkers(seenText[1]) = resolved

====
